---------------------------- MODULE Spec2Model ----------------------------
(***************************************************************************)
(* Caption-driven figure extraction of PapertoWechat                       *)
(* (src/utils/pdfUtils.ts: extractImagesFromPdf, mergeLine), its caller    *)
(* (App: handleFileChange, handleProcess) and the figure matching of       *)
(* ArticleRenderer (getMatchingFigure).                                    *)
(*                                                                         *)
(* Text is a sequence of one-character strings.  Viewport coordinates are  *)
(* integers.  A document is a sequence of pages, a page is the sequence    *)
(* textContent.items of that page, each item given by its string, its      *)
(* viewport point (vx, vy) and its PDF-space width and height.             *)
(***************************************************************************)
EXTENDS Integers, Sequences, FiniteSets, TLC

VARIABLES
    doc,               \* the PDF: doc[p] is textContent.items of page p
    engine,            \* what the engine's sort does with an inconsistent comparator
    pc,                \* position inside extractImagesFromPdf
    pageNum,           \* loop variable of the page loop
    extractedFigures,  \* the accumulating result
    items,             \* the page's items after map, filter and sort
    lines,             \* the page's lines
    captionLines,      \* the page's caption lines
    capIdx,            \* index of the caption the crop loop is at
    crops,             \* log of the crop loop's iterations on this page
    attempted,         \* log of the page numbers the loop has entered
    failed,            \* log of the pages whose iteration was cut short
    file,              \* App state: the selected file, 0 for null
    status,            \* App state: the ProcessingState
    statusMessage,     \* App state: which message is shown
    article,           \* App state: 0 for null, or the article and the file it is of
    extractedImages,   \* App state: the figures and the file they were taken from
    runs,              \* the invocations of handleProcess: file and position of each
    matchingFig        \* ArticleRenderer: the section rendered last and its figure

(* the state of one call of extractImagesFromPdf *)
pdfVars == <<doc, engine, pc, pageNum, extractedFigures, items, lines, captionLines,
             capIdx, crops, attempted, failed>>

(* the state of ArticleRenderer's rendering of a section *)
viewVars == <<matchingFig>>

(* the state of the App component and of its handlers *)
appVars == <<file, status, statusMessage, article, extractedImages, runs>>

vars == <<doc, engine, pc, pageNum, extractedFigures, items, lines, captionLines,
          capIdx, crops, attempted, failed,
          file, status, statusMessage, article, extractedImages, runs, matchingFig>>

---------------------------------------------------------------------------
(* Bounds of the model *)

MaxRuns == 3

MaxPages == 2

MaxFiles == 2

MaxClicks == 2

MaxImages == 2

---------------------------------------------------------------------------
(* Program constants *)

Scale == 2

DefaultHeight == 10

LineTolerance == 8

GapThreshold == 5

CropPadding == 15

FallbackWindow == 600

MinCropHeight == 100

MinWindow == 450

---------------------------------------------------------------------------
(* Arithmetic and sequence helpers *)

Abs(n) == IF n < 0 THEN -n ELSE n

Max2(a, b) == IF a >= b THEN a ELSE b

Min2(a, b) == IF a <= b THEN a ELSE b

Range(s) == {s[i] : i \in DOMAIN s}

RECURSIVE SeqMin(_)
SeqMin(s) == IF Len(s) = 1 THEN s[1] ELSE Min2(s[1], SeqMin(Tail(s)))

RECURSIVE SeqMax(_)
SeqMax(s) == IF Len(s) = 1 THEN s[1] ELSE Max2(s[1], SeqMax(Tail(s)))

(* Array.prototype.filter: the elements of s whose flag in keep is set *)
RECURSIVE FilterBy(_, _)
FilterBy(s, keep) ==
    IF s = <<>> THEN <<>>
    ELSE (IF Head(keep) THEN <<Head(s)>> ELSE <<>>) \o FilterBy(Tail(s), Tail(keep))

---------------------------------------------------------------------------
(* Characters *)

UpperCase == <<"A","B","C","D","E","F","G","H","I","J","K","L","M",
               "N","O","P","Q","R","S","T","U","V","W","X","Y","Z">>

LowerCase == <<"a","b","c","d","e","f","g","h","i","j","k","l","m",
               "n","o","p","q","r","s","t","u","v","w","x","y","z">>

(* Canonicalize of a pattern without the i flag *)
Canonicalize_CaseSensitive(c) == c

(* the canonicalisation of the regular expression's i flag *)
Canonicalize(c) ==
    IF \E i \in DOMAIN LowerCase : LowerCase[i] = c
    THEN UpperCase[CHOOSE i \in DOMAIN LowerCase : LowerCase[i] = c]
    ELSE c

IsDigit(c) == c \in {"0","1","2","3","4","5","6","7","8","9"}

(* \s of the regular expression, the white space of String.prototype.trim *)
IsWhiteSpace(c) == c \in {" ", "\t", "\n", "\r", "\f"}

(* [\.\s] *)
IsDotOrSpace(c) == c = "." \/ IsWhiteSpace(c)

(* str.trim().length > 0 *)
TrimNonEmpty(str) == \E i \in DOMAIN str : ~IsWhiteSpace(str[i])

DigitChars == <<"0","1","2","3","4","5","6","7","8","9">>

(* the decimal digits of a natural number, as template literals print it *)
RECURSIVE NumberToString(_)
NumberToString(n) ==
    IF n < 10 THEN <<DigitChars[n + 1]>>
    ELSE NumberToString(n \div 10) \o <<DigitChars[(n % 10) + 1]>>

---------------------------------------------------------------------------
(* Array.prototype.sort *)

(* In what follows cmp[i][j] is a comparator's result on the i-th and the  *)
(* j-th element of the array that is sorted.                               *)

(* A comparator is consistent on an array when = is an equivalence and <   *)
(* and > are transitive on it (ECMAScript, Array.prototype.sort).          *)
Consistent(cmp) ==
    LET S == DOMAIN cmp
    IN  /\ \A a \in S : cmp[a][a] = 0
        /\ \A a, b \in S : cmp[a][b] = 0 => cmp[b][a] = 0
        /\ \A a, b, c \in S :
             /\ (cmp[a][b] = 0 /\ cmp[b][c] = 0) => cmp[a][c] = 0
             /\ (cmp[a][b] < 0 /\ cmp[b][c] < 0) => cmp[a][c] < 0
             /\ (cmp[a][b] > 0 /\ cmp[b][c] > 0) => cmp[a][c] > 0

(* Index e moved from the end of ord to the left past every index the      *)
(* comparator puts above it, as an insertion sort's inner loop does.       *)
RECURSIVE InsertSorted(_, _, _)
InsertSorted(ord, e, cmp) ==
    IF ord = <<>> THEN <<e>>
    ELSE IF cmp[ord[Len(ord)]][e] > 0
    THEN Append(InsertSorted(SubSeq(ord, 1, Len(ord) - 1), e, cmp), ord[Len(ord)])
    ELSE Append(ord, e)

(* the indices 1..n as an insertion sort leaves them *)
RECURSIVE SortIndices(_, _)
SortIndices(n, cmp) ==
    IF n = 0 THEN <<>> ELSE InsertSorted(SortIndices(n - 1, cmp), n, cmp)

(* s sorted by insertion: the stable sort of s when Cmp is consistent *)
StableSort(s, cmp) ==
    LET ord == SortIndices(Len(s), cmp)
    IN  [k \in DOMAIN s |-> s[ord[k]]]

Orderings(s) ==
    {[i \in DOMAIN s |-> s[f[i]]] :
        f \in {g \in [DOMAIN s -> DOMAIN s] : \A i, j \in DOMAIN s : i # j => g[i] # g[j]}}

(* The engines: one that sorts short arrays by insertion, and one of which *)
(* only the language's contract is known.                                  *)
Engines == {"insertion", "unspecified"}

(* What sort may leave in the array: the stable order under a consistent   *)
(* comparator; under an inconsistent one the order is implementation       *)
(* defined: what insertion gives, or any order of the elements.            *)
SortOutcomes(s, cmp) ==
    IF engine = "insertion" \/ Consistent(cmp) THEN {StableSort(s, cmp)}
    ELSE Orderings(s)

---------------------------------------------------------------------------
(* 1. Map items to the viewport, drop the blank ones *)

(* one TextItemPosition; idx is the item's place in textContent.items *)
MapItem(item, i) ==
    LET w == item.width * Scale
        h == IF Abs(item.height * Scale) = 0 THEN DefaultHeight
             ELSE Abs(item.height * Scale)
    IN  [str |-> item.str, x |-> item.vx, y |-> item.vy - h, bottom |-> item.vy,
         width |-> w, height |-> h, right |-> item.vx + w, idx |-> i]

(* KeepItem of a pipeline without the filter *)
KeepItem_KeepsAll(i) == TRUE

KeepItem(i) == TrimNonEmpty(i.str)

MapItems(page) ==
    FilterBy([i \in DOMAIN page |-> MapItem(page[i], i)],
             [i \in DOMAIN page |-> KeepItem(MapItem(page[i], i))])

---------------------------------------------------------------------------
(* 2. Group into lines *)

(* the comparator handed to items.sort *)
CompareItems(a, b) ==
    IF Abs(a.bottom - b.bottom) < LineTolerance THEN a.x - b.x
    ELSE a.bottom - b.bottom

(* items.sort(CompareItems) *)
SortItems(its) ==
    SortOutcomes(its, [i \in DOMAIN its |-> [j \in DOMAIN its |->
                           CompareItems(its[i], its[j])]])

(* the comparator of mergeLine's sort *)
CompareX(a, b) == a.x - b.x

(* SignificantGap with the threshold itself counted as a gap *)
SignificantGap_Inclusive(prev, curr) == curr.x - prev.right >= GapThreshold

(* the gap check of mergeLine *)
SignificantGap(prev, curr) == curr.x - prev.right > GapThreshold

(* the text loop of mergeLine, from the i-th item on *)
RECURSIVE MergeText(_, _, _)
MergeText(its, i, text) ==
    IF i > Len(its) THEN text
    ELSE MergeText(its, i + 1,
             (IF SignificantGap(its[i - 1], its[i]) THEN text \o <<" ">> ELSE text)
                 \o its[i].str)

(* mergeLine taking the line's top and bottom from its first run *)
mergeLine_FirstRunBox(its) ==
    LET sorted == StableSort(its, [i \in DOMAIN its |-> [j \in DOMAIN its |->
                                      CompareX(its[i], its[j])]])
        text   == MergeText(sorted, 2, sorted[1].str)
    IN  [text |-> text, x |-> sorted[1].x, y |-> sorted[1].y,
         bottom |-> sorted[1].bottom, height |-> sorted[1].bottom - sorted[1].y,
         items |-> sorted]

(* mergeLine; items is the argument array as mergeLine's sort leaves it *)
mergeLine(its) ==
    LET sorted == StableSort(its, [i \in DOMAIN its |-> [j \in DOMAIN its |->
                                      CompareX(its[i], its[j])]])
        text   == MergeText(sorted, 2, sorted[1].str)
        y      == SeqMin([i \in DOMAIN sorted |-> sorted[i].y])
        bottom == SeqMax([i \in DOMAIN sorted |-> sorted[i].bottom])
    IN  [text |-> text, x |-> sorted[1].x, y |-> y, bottom |-> bottom,
         height |-> bottom - y, items |-> sorted]

(* SameLine with the tolerance itself counted as the same line *)
SameLine_Inclusive(item, last) == Abs(item.bottom - last.bottom) <= LineTolerance

(* whether item joins the current line *)
SameLine(item, last) == Abs(item.bottom - last.bottom) < LineTolerance

(* the forEach over the sorted items, from the i-th on, and the final push *)
RECURSIVE GroupFrom(_, _, _, _)
GroupFrom(its, i, currentLine, acc) ==
    IF i > Len(its)
    THEN IF Len(currentLine) > 0 THEN Append(acc, mergeLine(currentLine)) ELSE acc
    ELSE IF Len(currentLine) = 0
    THEN GroupFrom(its, i + 1, <<its[i]>>, acc)
    ELSE IF SameLine(its[i], currentLine[Len(currentLine)])
    THEN GroupFrom(its, i + 1, Append(currentLine, its[i]), acc)
    ELSE GroupFrom(its, i + 1, <<its[i]>>, Append(acc, mergeLine(currentLine)))

GroupLines(its) == GroupFrom(its, 1, <<>>, <<>>)

---------------------------------------------------------------------------
(* 3. Detect captions: /^(Figure|Fig)[\.\s]+(\d+)/i *)

FigureWord == <<"F","i","g","u","r","e">>

FigWord == <<"F","i","g">>

(* the alternatives of the first group, in the order the pattern tries them *)
CaptionWords == <<FigureWord, FigWord>>

(* the word matches text at its start, ignoring case *)
MatchesWord(text, word) ==
    /\ Len(text) >= Len(word)
    /\ \A i \in DOMAIN word : Canonicalize(text[i]) = Canonicalize(word[i])

(* how many set flags follow from position p on *)
RECURSIVE RunLengthBy(_, _)
RunLengthBy(inClass, p) ==
    IF p <= Len(inClass) /\ inClass[p] THEN 1 + RunLengthBy(inClass, p + 1) ELSE 0

(* how many characters of [\.\s] follow from position p on *)
SeparatorRun(text, p) == RunLengthBy([i \in DOMAIN text |-> IsDotOrSpace(text[i])], p)

(* how many digits follow from position p on *)
DigitRun(text, p) == RunLengthBy([i \in DOMAIN text |-> IsDigit(text[i])], p)

(* [\.\s]+(\d+) from position p: the separator counts, longest first, that *)
(* leave a digit behind them                                               *)
SeparatorChoices(text, p) ==
    {k \in 1..SeparatorRun(text, p) : DigitRun(text, p + k) >= 1}

(* the rest of the pattern behind the word at index w of CaptionWords *)
RestMatches(text, w) == SeparatorChoices(text, Len(CaptionWords[w]) + 1) # {}

WordMatches(text, w) == MatchesWord(text, CaptionWords[w]) /\ RestMatches(text, w)

(* captionRegex.test(text) *)
captionRegexTest(text) == \E w \in DOMAIN CaptionWords : WordMatches(text, w)

(* match[2] of text.match(captionRegex), for a text that matches *)
captionRegexDigits(text) ==
    LET w == CHOOSE v \in DOMAIN CaptionWords :
                 /\ WordMatches(text, v)
                 /\ \A u \in DOMAIN CaptionWords : WordMatches(text, u) => v <= u
        p == Len(CaptionWords[w]) + 1
        k == CHOOSE c \in SeparatorChoices(text, p) :
                 \A d \in SeparatorChoices(text, p) : d <= c
    IN  SubSeq(text, p + k, p + k + DigitRun(text, p + k) - 1)

IsCaptionLine(l) == captionRegexTest(l.text)

(* `Figure ${match[2]}` *)
LabelOf(text) == <<"F","i","g","u","r","e"," ">> \o captionRegexDigits(text)

---------------------------------------------------------------------------
(* 5. Crop region of one caption *)

(* CompareBottomDesc sorting the farthest line first *)
CompareBottomDesc_Ascending(a, b) == a.bottom - b.bottom

(* Cmp of linesAbove.sort: closest first *)
CompareBottomDesc(a, b) == b.bottom - a.bottom

(* linesAbove.sort(CompareBottomDesc) *)
SortClosestFirst(ls) ==
    StableSort(ls, [i \in DOMAIN ls |-> [j \in DOMAIN ls |->
                       CompareBottomDesc(ls[i], ls[j])]])

(* LinesAbove leaving the other caption lines out of the text above *)
LinesAbove_SkipsCaptions(caption, ls) ==
    SortClosestFirst(FilterBy(ls, [i \in DOMAIN ls |->
        ls[i].bottom < caption.y /\ ls[i].bottom > 0 /\ ~IsCaptionLine(ls[i])]))

(* LinesAbove counting the lines at or above the page's top *)
LinesAbove_NoPositiveFilter(caption, ls) ==
    SortClosestFirst(FilterBy(ls, [i \in DOMAIN ls |-> ls[i].bottom < caption.y]))

(* the lines strictly above the caption, closest first *)
LinesAbove(caption, ls) ==
    SortClosestFirst(FilterBy(ls, [i \in DOMAIN ls |->
                                     ls[i].bottom < caption.y /\ ls[i].bottom > 0]))

(* InitialCropTop without the padding below the previous text *)
InitialCropTop_NoPadding(caption, ls) ==
    LET linesAbove == LinesAbove(caption, ls)
    IN  IF linesAbove # <<>> THEN linesAbove[1].bottom
        ELSE Max2(0, caption.y - FallbackWindow)

(* InitialCropTop with a fallback that is not held at the page's top *)
InitialCropTop_FallbackUnclamped(caption, ls) ==
    LET linesAbove == LinesAbove(caption, ls)
    IN  IF linesAbove # <<>> THEN linesAbove[1].bottom + CropPadding
        ELSE caption.y - FallbackWindow

(* cropTop before the sanity check *)
InitialCropTop(caption, ls) ==
    LET linesAbove == LinesAbove(caption, ls)
    IN  IF linesAbove # <<>> THEN linesAbove[1].bottom + CropPadding
        ELSE Max2(0, caption.y - FallbackWindow)

(* SanityCheck of a crop loop without the minimum-window correction *)
SanityCheck_Off(cropTop, cropBottom) == cropTop

(* SanityCheck without the clamp at the page's top *)
SanityCheck_NoClamp(cropTop, cropBottom) ==
    IF cropBottom - cropTop < MinCropHeight THEN cropBottom - MinWindow
    ELSE cropTop

(* the sanity check: force a minimum height window *)
SanityCheck(cropTop, cropBottom) ==
    IF cropBottom - cropTop < MinCropHeight THEN Max2(0, cropBottom - MinWindow)
    ELSE cropTop

CropRegion(caption, ls) ==
    LET cropBottom == caption.y
        cropTop    == SanityCheck(InitialCropTop(caption, ls), cropBottom)
    IN  [cropTop |-> cropTop, cropBottom |-> cropBottom,
         cropHeight |-> cropBottom - cropTop]

(* Degenerate letting a height of 0 through *)
Degenerate_ZeroPasses(cropHeight) == cropHeight < 0

(* cropHeight <= 0: the caption is dropped *)
Degenerate(cropHeight) == cropHeight <= 0

(* the record pushed to extractedFigures; src stands for the data URL of   *)
(* the crop, which drawImage takes from (cropTop, cropHeight) of the page  *)
Figure(page, caption, region) ==
    [id    |-> NumberToString(page) \o <<"-">> \o LabelOf(caption.text),
     label |-> LabelOf(caption.text),
     page  |-> page,
     src   |-> [page |-> page, top |-> region.cropTop, height |-> region.cropHeight]]

---------------------------------------------------------------------------
(* The documents the model reads *)

TextFigure1 == <<"F","i","g","u","r","e"," ","1">>

TextIntro == <<"I","n","t","r","o"," ","t","e","x","t">>

Item(str, vx, vy, width, height) ==
    [str |-> str, vx |-> vx, vy |-> vy, width |-> width, height |-> height]

(* Baselines of the crop geometry pages, top to bottom.  A caption of      *)
(* height 10 on them has its top at -13, 0, 50, 290, 302, 440, 500, 700.   *)
GeomBottoms == <<-3, 10, 60, 300, 312, 450, 510, 710>>

GeomTexts == <<TextFigure1, TextIntro>>

(* one single-run line per baseline, a caption or plain text *)
GeomPool ==
    [k \in 1..(Len(GeomBottoms) * Len(GeomTexts)) |->
        Item(GeomTexts[((k - 1) % Len(GeomTexts)) + 1], 0,
             GeomBottoms[((k - 1) \div Len(GeomTexts)) + 1], 10, 5)]

(* the elements of s at the indices of S, in the order of s *)
RECURSIVE Pick(_, _, _)
Pick(s, S, i) ==
    IF i > Len(s) THEN <<>>
    ELSE (IF i \in S THEN <<s[i]>> ELSE <<>>) \o Pick(s, S, i + 1)

(* pages of up to MaxRuns lines of GeomPool, in reading order *)
GeomPages ==
    {Pick(GeomPool, S, 1) :
        S \in {T \in SUBSET DOMAIN GeomPool : Cardinality(T) <= MaxRuns}}

(* Runs for line reconstruction: baselines 1, 7, 8 and more apart, left    *)
(* edges 0, 25 and 51 that leave gaps of -20, 5 and 6 behind a run of 20.  *)
LineRun(vx, vy) ==
    CASE vx = 0  -> Item(<<"F","i","g">>, vx, vy, 10, 5)
      [] vx = 25 -> Item(<<"1">>, vx, vy, 10, 6)
      [] OTHER   -> Item(<<"2">>, vx, vy, 10, 0)

LinePool ==
    {LineRun(0, 300), LineRun(51, 300), LineRun(25, 301),
     LineRun(0, 308), LineRun(51, 308), LineRun(0, 316)}

(* pages of up to MaxRuns runs of LinePool, in any order *)
LinePages == UNION {[1..n -> LinePool] : n \in 0..MaxRuns}

(* Four runs whose baselines chain: 300 ~ 302 ~ 308 ~ 309 are each less   *)
(* than 8 apart, 300 and 308, 300 and 309 are not.                         *)
ChainRuns ==
    <<Item(<<"b">>, 25, 302, 10, 5), Item(<<"c">>, 0, 309, 10, 5),
      Item(<<"d">>, 25, 308, 10, 5), Item(<<"a">>, 26, 300, 10, 5)>>

(* the page of these four runs, in any order of the content stream *)
ChainPages == Orderings(ChainRuns)

(* Texts for caption detection *)
CaptionTexts ==
    { TextFigure1,
      <<"F","i","g","."," ","1">>,
      <<"f","i","g"," ","1">>,
      <<"F","I","G","U","R","E",".","1">>,
      <<"F","i","g","u","r","e"," ","1","2",":"," ","x">>,
      <<"F","i","g",".","\t",".","0","7","a">>,
      <<"f","I","g","U","r","E"," "," ","3">>,
      <<"F","i","g","u","r","e","1">>,
      <<"F","i","g","1">>,
      <<"F","i","g","u","r","e","s"," ","1">>,
      <<"F","i","g","u","r"," ","1">>,
      <<"F","i","g","u","r","e"," ","a","1">>,
      <<"F","i","g","u","r","e"," ">>,
      <<"F","i","g",".">>,
      <<" ","F","i","g"," ","1">>,
      <<"T","a","b","l","e"," ","1">>,
      <<"i","n"," ","F","i","g","."," ","1">>,
      <<"F","i","g","-","1">>,
      <<" ","\t">>,
      <<>> }

(* a text line at baseline 300 and a candidate caption below it *)
TextPages ==
    {<<Item(TextIntro, 0, 300, 10, 5), Item(t, 0, 510, 10, 5)>> : t \in CaptionTexts}

(* Pages of the documents of several pages: no text, no caption, one       *)
(* caption, a caption above the page's top, two captions of one label.     *)
PagePool ==
    { <<>>,
      <<Item(TextIntro, 0, 300, 10, 5)>>,
      <<Item(TextIntro, 0, 100, 10, 5),
        Item(<<"F","i","g","u","r","e"," ","1",":"," ","r","e","s","u","l","t","s">>,
             0, 610, 10, 5)>>,
      <<Item(<<"F","i","g","."," ","2">>, 0, 5, 10, 5)>>,
      <<Item(TextFigure1, 0, 510, 10, 5), Item(<<"f","i","g"," ","1">>, 0, 710, 10, 5)>> }

(* Pages with blank runs: nothing but blank runs; a blank run between the  *)
(* runs of a line; a tall blank run above a caption.                       *)
BlankPages ==
    { <<Item(<<" ">>, 0, 300, 10, 5)>>,
      <<Item(<<" ", "\t">>, 0, 300, 10, 5), Item(<<>>, 0, 510, 10, 5)>>,
      <<Item(<<"F","i","g">>, 0, 300, 10, 5), Item(<<" ">>, 21, 300, 1, 50),
        Item(<<"1">>, 25, 300, 10, 5)>>,
      <<Item(TextFigure1, 0, 510, 10, 5), Item(<<" ">>, 0, 300, 10, 50)>> }

Docs ==
    {<<p>> : p \in GeomPages \cup LinePages \cup ChainPages \cup TextPages
                      \cup BlankPages}
        \cup UNION {[1..n -> PagePool] : n \in 1..MaxPages}

---------------------------------------------------------------------------
(* App: the state, handleFileChange, handleProcess and the Generate button *)
(* (coverImageUrl, editablePrompt and the image generation are left out:   *)
(* handleProcess neither reads nor writes them)                            *)

Files == 1..MaxFiles

NoImages == [file |-> 0, figures |-> <<>>]

(* an optional string: undefined, or the string str *)
Undefined == [defined |-> FALSE, str |-> <<>>]

Defined(str) == [defined |-> TRUE, str |-> str]

(* what find and getMatchingFigure return: null, undefined, or an image *)
Null == [found |-> "null", image |-> <<>>]

NotFound == [found |-> "undefined", image |-> <<>>]

Found(img) == [found |-> "image", image |-> <<img>>]

(* no section has been rendered *)
NoSection == [rendered |-> FALSE, section |-> Undefined, fig |-> Null]

(* the useState initial values, with selected as the file input's value *)
AppInit(selected) ==
    /\ file = selected
    /\ status = "IDLE"
    /\ statusMessage = ""
    /\ article = 0
    /\ extractedImages = NoImages
    /\ runs = <<>>
    /\ matchingFig = NoSection

(* disabled={!file || status === READING || status === GENERATING} *)
GenerateDisabled == file = 0 \/ status = "READING" \/ status = "GENERATING"

(* run r is between its start and its return *)
InFlight(r) == r \in DOMAIN runs /\ runs[r].at # "returned"

(* run r moves to position at *)
MoveRun(r, at) == runs' = [runs EXCEPT ![r].at = at]

(* handleFileChange with e.target.files[0] = f *)
HandleFileChange(f) ==
    /\ file' = f
    /\ status' = "IDLE"
    /\ article' = 0
    /\ extractedImages' = NoImages
    /\ UNCHANGED <<statusMessage, runs>>
    /\ UNCHANGED <<pdfVars, viewVars>>

(* a click on Generate: handleProcess up to await extractImagesFromPdf(file) *)
HandleProcess ==
    /\ ~GenerateDisabled
    /\ Len(runs) < MaxClicks
    /\ status' = "READING"
    /\ statusMessage' = "Scanning PDF for Figures"
    /\ runs' = Append(runs, [file |-> file, at |-> "extract"])
    /\ UNCHANGED <<file, article, extractedImages>>
    /\ UNCHANGED <<pdfVars, viewVars>>

(* ImagesRejected of a handleProcess without the inner try *)
ImagesRejected_EntersError(r) ==
    /\ status' = "ERROR"
    /\ statusMessage' = "Failed to process PDF"
    /\ MoveRun(r, "returned")
    /\ UNCHANGED <<file, article, extractedImages>>

(* the inner catch: extractImagesFromPdf rejected, the run goes on *)
ImagesRejected(r) ==
    /\ statusMessage' = "Figure extraction skipped due to error"
    /\ MoveRun(r, "toBase64")
    /\ UNCHANGED <<file, status, article, extractedImages>>

(* extractImagesFromPdf resolved with images: they are stored; with none   *)
(* the run waits a second, else it goes on                                 *)
ImagesResolved(r, images) ==
    /\ extractedImages' = [file |-> runs[r].file, figures |-> images]
    /\ IF Len(images) = 0
       THEN statusMessage' = "No captions found" /\ MoveRun(r, "delay")
       ELSE statusMessage' = "Found figures" /\ MoveRun(r, "toBase64")
    /\ UNCHANGED <<file, status, article>>

(* the timeout of the text-only message elapses *)
DelayElapses(r) ==
    /\ InFlight(r) /\ runs[r].at = "delay"
    /\ MoveRun(r, "toBase64")
    /\ UNCHANGED <<file, status, statusMessage, article, extractedImages>>
    /\ UNCHANGED <<pdfVars, viewVars>>

(* fileToBase64 resolves: GENERATING, generateArticleFromPdf is called; it *)
(* reports its progress unless getAiClient throws for want of a key        *)
ToBase64Resolves(r) ==
    /\ InFlight(r) /\ runs[r].at = "toBase64"
    /\ status' = "GENERATING"
    /\ \E client \in BOOLEAN :
         IF client
         THEN statusMessage' = "Deep reading" /\ MoveRun(r, "generate")
         ELSE statusMessage' = statusMessage /\ MoveRun(r, "noClient")
    /\ UNCHANGED <<file, article, extractedImages>>
    /\ UNCHANGED <<pdfVars, viewVars>>

(* the outer catch *)
ProcessFailed(r) ==
    /\ status' = "ERROR"
    /\ statusMessage' = "Failed to process PDF"
    /\ MoveRun(r, "returned")
    /\ UNCHANGED <<file, article, extractedImages>>
    /\ UNCHANGED <<pdfVars, viewVars>>

(* fileToBase64 rejects *)
ToBase64Rejects(r) ==
    /\ InFlight(r) /\ runs[r].at = "toBase64"
    /\ ProcessFailed(r)

(* generateArticleFromPdf resolves: the article is stored, COMPLETE *)
GenerateResolves(r) ==
    /\ InFlight(r) /\ runs[r].at = "generate"
    /\ article' = [file |-> runs[r].file]
    /\ status' = "COMPLETE"
    /\ MoveRun(r, "returned")
    /\ UNCHANGED <<file, statusMessage, extractedImages>>
    /\ UNCHANGED <<pdfVars, viewVars>>

(* generateArticleFromPdf rejects *)
GenerateRejects(r) ==
    /\ InFlight(r) /\ runs[r].at \in {"generate", "noClient"}
    /\ ProcessFailed(r)

---------------------------------------------------------------------------
(* extractImagesFromPdf, as the first run of handleProcess calls it *)

numPages == Len(doc)

Init ==
    /\ doc \in Docs
    /\ engine \in Engines
    /\ pc = "load"
    /\ pageNum = 0
    /\ extractedFigures = <<>>
    /\ items = <<>>
    /\ lines = <<>>
    /\ captionLines = <<>>
    /\ capIdx = 0
    /\ crops = <<>>
    /\ attempted = <<>>
    /\ failed = {}
    /\ AppInit(1)

(* the loop's test after pageNum has been set to n *)
LoopAt(n) == IF n <= numPages THEN "getPage" ELSE "done"

(* NextPage of a loop that steps by two *)
NextPage_SkipsPage ==
    /\ pageNum' = pageNum + 2
    /\ pc' = LoopAt(pageNum + 2)

(* continue and the end of the loop body: pageNum++ *)
NextPage ==
    /\ pageNum' = pageNum + 1
    /\ pc' = LoopAt(pageNum + 1)

(* CatchError of a loop whose try is missing: the call rejects *)
CatchError_Rejects ==
    /\ failed' = failed \cup {pageNum}
    /\ pageNum' = pageNum
    /\ pc' = "rejected"

(* the catch block: the error is logged, the loop goes on *)
CatchError ==
    /\ failed' = failed \cup {pageNum}
    /\ NextPage

(* file.arrayBuffer() and getDocument(...).promise resolve *)
Load ==
    /\ pc = "load"
    /\ InFlight(1)
    /\ pageNum' = 1
    /\ pc' = LoopAt(1)
    /\ UNCHANGED <<appVars, viewVars>>
    /\ UNCHANGED <<doc, engine, extractedFigures, items, lines, captionLines, capIdx,
                   crops, attempted, failed>>

(* one of them rejects: outside the loop's try, the call rejects *)
LoadRejects ==
    /\ pc = "load"
    /\ InFlight(1)
    /\ pc' = "rejected"
    /\ UNCHANGED <<appVars, viewVars>>
    /\ UNCHANGED <<doc, engine, pageNum, extractedFigures, items, lines, captionLines,
                   capIdx, crops, attempted, failed>>

(* await pdf.getPage(pageNum) resolves *)
GetPage ==
    /\ pc = "getPage"
    /\ pc' = "getTextContent"
    /\ attempted' = Append(attempted, pageNum)
    /\ UNCHANGED <<appVars, viewVars>>
    /\ UNCHANGED <<doc, engine, pageNum, extractedFigures, items, lines, captionLines,
                   capIdx, crops, failed>>

(* await pdf.getPage(pageNum) rejects: caught, logged *)
GetPageThrows ==
    /\ pc = "getPage"
    /\ attempted' = Append(attempted, pageNum)
    /\ CatchError
    /\ UNCHANGED <<appVars, viewVars>>
    /\ UNCHANGED <<doc, engine, extractedFigures, items, lines, captionLines, capIdx, crops>>

(* await page.getTextContent() rejects, or the mapping throws: caught *)
TextContentThrows ==
    /\ pc = "getTextContent"
    /\ CatchError
    /\ UNCHANGED <<appVars, viewVars>>
    /\ UNCHANGED <<doc, engine, extractedFigures, items, lines, captionLines, capIdx,
                   crops, attempted>>

(* lines.filter(l => captionRegex.test(l.text)) *)
CaptionLinesOf(ls) == FilterBy(ls, [i \in DOMAIN ls |-> IsCaptionLine(ls[i])])

(* steps 1 to 3 on the page's text content, sorted being what sort left *)
Reconstruct(sorted) ==
    /\ items' = sorted
    /\ lines' = GroupLines(sorted)
    /\ captionLines' = CaptionLinesOf(GroupLines(sorted))
    /\ crops' = <<>>
    /\ capIdx' = 1

(* getTextContent resolves and no line is a caption: continue *)
TextContentNoCaptions ==
    /\ pc = "getTextContent"
    /\ \E sorted \in SortItems(MapItems(doc[pageNum])) :
         /\ Reconstruct(sorted)
         /\ Len(CaptionLinesOf(GroupLines(sorted))) = 0
    /\ NextPage
    /\ UNCHANGED <<appVars, viewVars>>
    /\ UNCHANGED <<doc, engine, extractedFigures, attempted, failed>>

(* there are captions and canvas.getContext('2d') gives null: continue *)
TextContentNoContext ==
    /\ pc = "getTextContent"
    /\ \E sorted \in SortItems(MapItems(doc[pageNum])) :
         /\ Reconstruct(sorted)
         /\ Len(CaptionLinesOf(GroupLines(sorted))) # 0
    /\ failed' = failed \cup {pageNum}
    /\ NextPage
    /\ UNCHANGED <<appVars, viewVars>>
    /\ UNCHANGED <<doc, engine, extractedFigures, attempted>>

(* there are captions and a context: the page's render is started *)
TextContentRender ==
    /\ pc = "getTextContent"
    /\ \E sorted \in SortItems(MapItems(doc[pageNum])) :
         /\ Reconstruct(sorted)
         /\ Len(CaptionLinesOf(GroupLines(sorted))) # 0
    /\ pc' = "render"
    /\ UNCHANGED <<appVars, viewVars>>
    /\ UNCHANGED <<doc, engine, pageNum, extractedFigures, attempted, failed>>

(* await page.render(...).promise resolves *)
Render ==
    /\ pc = "render"
    /\ pc' = "crop"
    /\ UNCHANGED <<appVars, viewVars>>
    /\ UNCHANGED <<doc, engine, pageNum, extractedFigures, items, lines, captionLines,
                   capIdx, crops, attempted, failed>>

(* await page.render(...).promise rejects: caught *)
RenderThrows ==
    /\ pc = "render"
    /\ CatchError
    /\ UNCHANGED <<appVars, viewVars>>
    /\ UNCHANGED <<doc, engine, extractedFigures, items, lines, captionLines, capIdx,
                   crops, attempted>>

(* the caption the crop loop is at, and its region *)
Caption == captionLines[capIdx]

(* what one iteration of the crop loop logs *)
CropEntry(outcome) ==
    LET region == CropRegion(Caption, lines)
    IN  [page |-> pageNum, caption |-> Caption,
         initialTop |-> InitialCropTop(Caption, lines),
         cropTop |-> region.cropTop, cropBottom |-> region.cropBottom,
         cropHeight |-> region.cropHeight, outcome |-> outcome]

(* the for-of steps to the next caption, or the loop body ends *)
NextCaption ==
    /\ capIdx' = capIdx + 1
    /\ IF capIdx + 1 <= Len(captionLines)
       THEN pc' = "crop" /\ pageNum' = pageNum
       ELSE NextPage

(* cropHeight <= 0: continue *)
CropSkip ==
    /\ pc = "crop"
    /\ Degenerate(CropRegion(Caption, lines).cropHeight)
    /\ crops' = Append(crops, CropEntry("skipped"))
    /\ NextCaption
    /\ UNCHANGED <<appVars, viewVars>>
    /\ UNCHANGED <<doc, engine, extractedFigures, items, lines, captionLines, attempted, failed>>

(* the crop is drawn and pushed *)
CropEmit ==
    /\ pc = "crop"
    /\ ~Degenerate(CropRegion(Caption, lines).cropHeight)
    /\ extractedFigures' =
         Append(extractedFigures, Figure(pageNum, Caption, CropRegion(Caption, lines)))
    /\ crops' = Append(crops, CropEntry("emitted"))
    /\ NextCaption
    /\ UNCHANGED <<appVars, viewVars>>
    /\ UNCHANGED <<doc, engine, items, lines, captionLines, attempted, failed>>

(* cropCanvas.getContext('2d') gives null: nothing is pushed *)
CropNoContext ==
    /\ pc = "crop"
    /\ ~Degenerate(CropRegion(Caption, lines).cropHeight)
    /\ crops' = Append(crops, CropEntry("nocontext"))
    /\ NextCaption
    /\ UNCHANGED <<appVars, viewVars>>
    /\ UNCHANGED <<doc, engine, extractedFigures, items, lines, captionLines, attempted, failed>>

(* drawing or encoding the crop throws: caught, the page's loop is left *)
CropThrows ==
    /\ pc = "crop"
    /\ ~Degenerate(CropRegion(Caption, lines).cropHeight)
    /\ crops' = Append(crops, CropEntry("threw"))
    /\ CatchError
    /\ UNCHANGED <<appVars, viewVars>>
    /\ UNCHANGED <<doc, engine, extractedFigures, items, lines, captionLines, capIdx, attempted>>

(* the first click on Generate, on the file that holds doc *)
FirstProcess ==
    /\ runs = <<>>
    /\ HandleProcess

(* return extractedFigures: the call's frame and its locals are gone *)
Return ==
    /\ pc' = "returned"
    /\ items' = <<>>
    /\ lines' = <<>>
    /\ captionLines' = <<>>
    /\ capIdx' = 0
    /\ crops' = <<>>
    /\ UNCHANGED <<doc, engine, pageNum, extractedFigures, attempted, failed>>

(* the first run's await of extractImagesFromPdf resolves *)
ExtractDone ==
    /\ pc = "done"
    /\ InFlight(1) /\ runs[1].at = "extract"
    /\ ImagesResolved(1, extractedFigures)
    /\ Return
    /\ UNCHANGED viewVars

(* the first run's await of extractImagesFromPdf rejects *)
ExtractRejected ==
    /\ pc = "rejected"
    /\ InFlight(1) /\ runs[1].at = "extract"
    /\ ImagesRejected(1)
    /\ UNCHANGED <<pdfVars, viewVars>>

Next ==
    \/ FirstProcess
    \/ Load
    \/ LoadRejects
    \/ GetPage
    \/ GetPageThrows
    \/ TextContentThrows
    \/ TextContentNoCaptions
    \/ TextContentNoContext
    \/ TextContentRender
    \/ Render
    \/ RenderThrows
    \/ CropSkip
    \/ CropEmit
    \/ CropNoContext
    \/ CropThrows
    \/ ExtractDone
    \/ ExtractRejected
    \/ DelayElapses(1)
    \/ ToBase64Resolves(1)
    \/ ToBase64Rejects(1)
    \/ GenerateResolves(1)
    \/ GenerateRejects(1)

Spec == Init /\ [][Next]_vars

(* the runs on an engine that sorts by insertion *)
InitInsertionSort == Init /\ engine = "insertion"

SpecInsertionSort == InitInsertionSort /\ [][Next]_vars

---------------------------------------------------------------------------
(* The App under file selections and clicks.  Several runs of              *)
(* handleProcess may be in flight; a call of extractImagesFromPdf shares   *)
(* no state with the App or with another call, so each is taken here by    *)
(* its outcome alone.                                                      *)

(* a figure as extractImagesFromPdf returns it *)
SomeFigure ==
    [id |-> <<"1", "-">> \o TextFigure1, label |-> TextFigure1, page |-> 1,
     src |-> [page |-> 1, top |-> 315, height |-> 185]]

(* what a call of extractImagesFromPdf may resolve to *)
ExtractResults == {<<>>, <<SomeFigure>>}

InitApp ==
    /\ doc = <<>>
    /\ engine = "insertion"
    /\ pc = "load"
    /\ pageNum = 0
    /\ extractedFigures = <<>>
    /\ items = <<>>
    /\ lines = <<>>
    /\ captionLines = <<>>
    /\ capIdx = 0
    /\ crops = <<>>
    /\ attempted = <<>>
    /\ failed = {}
    /\ AppInit(0)

(* the user picks another file in the file input *)
SelectFile ==
    \E f \in Files :
        /\ f # file
        /\ HandleFileChange(f)

(* run r's await of extractImagesFromPdf resolves *)
ExtractCallResolves(r) ==
    /\ InFlight(r) /\ runs[r].at = "extract"
    /\ \E images \in ExtractResults : ImagesResolved(r, images)
    /\ UNCHANGED <<pdfVars, viewVars>>

(* run r's await of extractImagesFromPdf rejects *)
ExtractCallRejects(r) ==
    /\ InFlight(r) /\ runs[r].at = "extract"
    /\ ImagesRejected(r)
    /\ UNCHANGED <<pdfVars, viewVars>>

NextApp ==
    \/ SelectFile
    \/ HandleProcess
    \/ \E r \in DOMAIN runs : ExtractCallResolves(r)
    \/ \E r \in DOMAIN runs : ExtractCallRejects(r)
    \/ \E r \in DOMAIN runs : DelayElapses(r)
    \/ \E r \in DOMAIN runs : ToBase64Resolves(r)
    \/ \E r \in DOMAIN runs : ToBase64Rejects(r)
    \/ \E r \in DOMAIN runs : GenerateResolves(r)
    \/ \E r \in DOMAIN runs : GenerateRejects(r)

SpecApp == InitApp /\ [][NextApp]_vars

---------------------------------------------------------------------------
(* ArticleRenderer: getMatchingFigure *)

(* String.prototype.toLowerCase of one character *)
ToLowerChar(c) ==
    IF \E i \in DOMAIN UpperCase : UpperCase[i] = c
    THEN LowerCase[CHOOSE i \in DOMAIN UpperCase : UpperCase[i] = c]
    ELSE c

(* String.prototype.toLowerCase *)
ToLowerCase(str) == [i \in DOMAIN str |-> ToLowerChar(str[i])]

(* str.replace('.', ''): the first period is taken out *)
ReplaceFirstDot(str) ==
    LET dots == {i \in DOMAIN str : str[i] = "."}
    IN  IF dots = {} THEN str
        ELSE LET k == CHOOSE i \in dots : \A j \in dots : i <= j
             IN  SubSeq(str, 1, k - 1) \o SubSeq(str, k + 1, Len(str))

(* String.prototype.trim *)
Trim(str) ==
    LET solid == {i \in DOMAIN str : ~IsWhiteSpace(str[i])}
    IN  IF solid = {} THEN <<>>
        ELSE SubSeq(str, CHOOSE i \in solid : \A j \in solid : i <= j,
                         CHOOSE i \in solid : \A j \in solid : j <= i)

(* String.prototype.includes *)
Includes(str, part) ==
    \E k \in 0..(Len(str) - Len(part)) : SubSeq(str, k + 1, k + Len(part)) = part

(* label.toLowerCase().replace('.', '').trim() *)
NormalizeLabel(label) == Trim(ReplaceFirstDot(ToLowerCase(label)))

(* the predicate handed to extractedImages.find *)
LabelsMatch(img, normalized) ==
    \/ Includes(ToLowerCase(img.label), normalized)
    \/ Includes(normalized, ToLowerCase(img.label))

(* Array.prototype.find: the first element whose flag is set *)
FindFirst(s, flags) ==
    LET hits == {i \in DOMAIN s : flags[i]}
    IN  IF hits = {} THEN NotFound
        ELSE Found(s[CHOOSE i \in hits : \A j \in hits : i <= j])

(* getMatchingFigure over the prop extractedImages *)
getMatchingFigure(images, label) ==
    IF ~label.defined \/ label.str = <<>> THEN Null
    ELSE FindFirst(images, [i \in DOMAIN images |->
                               LabelsMatch(images[i], NormalizeLabel(label.str))])

(* the figure of page 1 that a caption of these digits gives *)
FigureNumbered(digits) ==
    [id |-> <<"1", "-", "F","i","g","u","r","e"," ">> \o digits,
     label |-> <<"F","i","g","u","r","e"," ">> \o digits, page |-> 1,
     src |-> [page |-> 1, top |-> 0, height |-> 100]]

FigureNumbers == {<<"1">>, <<"2">>, <<"1","0">>, <<"1","2">>}

(* the image lists the renderer is handed: up to MaxImages figures *)
ImageLists ==
    UNION {[1..n -> {FigureNumbered(d) : d \in FigureNumbers}] : n \in 0..MaxImages}

(* the suggestedFigureLocation of a section *)
SuggestedLocations ==
    {Undefined} \cup
    {Defined(<<"F","i","g","u","r","e"," ">> \o d) : d \in FigureNumbers \cup {<<"3">>}} \cup
    {Defined(<<>>), Defined(<<"F","i","g","."," ","2">>),
     Defined(<<"P","a","g","e"," ","3">>), Defined(<<" ">>)}

(* the App shows the article of file 1 with the images of file 1 *)
InitRenderer ==
    /\ doc = <<>>
    /\ engine = "insertion"
    /\ pc = "load"
    /\ pageNum = 0
    /\ extractedFigures = <<>>
    /\ items = <<>>
    /\ lines = <<>>
    /\ captionLines = <<>>
    /\ capIdx = 0
    /\ crops = <<>>
    /\ attempted = <<>>
    /\ failed = {}
    /\ file = 1
    /\ status = "COMPLETE"
    /\ statusMessage = "Deep reading"
    /\ article = [file |-> 1]
    /\ \E images \in ImageLists : extractedImages = [file |-> 1, figures |-> images]
    /\ runs = <<[file |-> 1, at |-> "returned"]>>
    /\ matchingFig = NoSection

(* article.sections.map: one section is rendered *)
RenderSection ==
    /\ \E label \in SuggestedLocations :
         matchingFig' = [rendered |-> TRUE, section |-> label,
                         fig |-> getMatchingFigure(extractedImages.figures, label)]
    /\ UNCHANGED <<pdfVars, appVars>>

NextRenderer == RenderSection

SpecRenderer == InitRenderer /\ [][NextRenderer]_vars

---------------------------------------------------------------------------
(* What the claims speak of *)

Entries == DOMAIN crops

(* the bottoms of the page's lines strictly between 0 and the caption top *)
BottomsAbove(e) ==
    {lines[i].bottom : i \in {j \in DOMAIN lines :
        lines[j].bottom > 0 /\ lines[j].bottom < e.caption.y}}

Greatest(S) == CHOOSE b \in S : \A o \in S : o <= b

(* the figures pushed for page p, in order *)
PageFigures(p) ==
    FilterBy(extractedFigures,
             [k \in DOMAIN extractedFigures |-> extractedFigures[k].page = p])

Emitted(i) == crops[i].outcome = "emitted"

(* the figure the i-th iteration of the crop loop pushed *)
FigureOf(i) ==
    PageFigures(crops[i].page)[Cardinality({j \in 1..i : Emitted(j)})]

(* C1: when the greatest line bottom B strictly between 0 and the caption  *)
(* top c leaves c - (B + 15) >= 100, the caption's crop region is exactly  *)
(* top = B + 15, bottom = c, and an emitted figure is drawn from it.       *)
C1_CropBelowNearestLine ==
    \A i \in Entries :
        LET e == crops[i]
            c == e.caption.y
        IN  (BottomsAbove(e) # {} /\ c - (Greatest(BottomsAbove(e)) + 15) >= 100)
            => /\ e.cropTop = Greatest(BottomsAbove(e)) + 15
               /\ e.cropBottom = c
               /\ Emitted(i) =>
                    /\ FigureOf(i).src.top = Greatest(BottomsAbove(e)) + 15
                    /\ FigureOf(i).src.height = c - (Greatest(BottomsAbove(e)) + 15)

(* caption top 500 under a nearest line bottom 300: a figure from 315 to 500 *)
C1_Witness ==
    \E i \in Entries :
        /\ crops[i].caption.y = 500
        /\ BottomsAbove(crops[i]) # {}
        /\ Greatest(BottomsAbove(crops[i])) = 300
        /\ Emitted(i)
        /\ FigureOf(i).src.top = 315
        /\ FigureOf(i).src.height = 185

(* C2: every figure comes from a region of positive height; a caption      *)
(* whose crop top is at or below its crop bottom is skipped: it pushes no  *)
(* figure, raises nothing, and the loop goes on to the page's next caption *)
C2_PositiveHeight ==
    /\ \A k \in DOMAIN extractedFigures : extractedFigures[k].src.height > 0
    /\ \A i \in Entries :
         /\ Emitted(i) => crops[i].cropBottom - crops[i].cropTop > 0
         /\ crops[i].cropTop >= crops[i].cropBottom => crops[i].outcome = "skipped"
    /\ crops # <<>> =>
         /\ Len(PageFigures(crops[1].page)) = Cardinality({i \in Entries : Emitted(i)})
         /\ (\A i \in Entries : crops[i].outcome # "threw")
              => /\ crops[1].page \notin failed
                 /\ (pc = "crop" /\ pageNum = crops[1].page) \/ Len(crops) = Len(captionLines)

(* a skipped caption followed by an emitted one, on a page that is done *)
C2_Witness ==
    \E i, j \in Entries :
        /\ i < j
        /\ crops[i].outcome = "skipped"
        /\ crops[i].cropTop >= crops[i].cropBottom
        /\ Emitted(j)
        /\ pc = "done"

(* the top the window has before the minimum-window correction *)
WindowTop(e) ==
    IF BottomsAbove(e) # {} THEN Greatest(BottomsAbove(e)) + 15
    ELSE IF e.caption.y - 600 > 0 THEN e.caption.y - 600 ELSE 0

(* C3: a window lower than 100 has its top replaced by max(0, bottom-450), *)
(* a window of 100 or more keeps its top; the bottom is the caption top.   *)
C3_MinimumWindow ==
    \A i \in Entries :
        LET e == crops[i]
            c == e.caption.y
        IN  /\ e.cropBottom = c
            /\ c - WindowTop(e) < 100
                 => e.cropTop = (IF c - 450 > 0 THEN c - 450 ELSE 0)
            /\ c - WindowTop(e) >= 100 => e.cropTop = WindowTop(e)

(* windows of height 35, of negative height and of height 50 corrected,    *)
(* one to top 50 and the others to top 0                                   *)
C3_Witness ==
    /\ \E i \in Entries :
         /\ crops[i].caption.y - WindowTop(crops[i]) < 100
         /\ crops[i].cropTop = 0
         /\ Emitted(i)
    /\ \E i \in Entries :
         /\ crops[i].caption.y - WindowTop(crops[i]) = 35
         /\ crops[i].cropTop = 50
         /\ Emitted(i)

(* C4: with no line bottom strictly between 0 and the caption top c, an    *)
(* emitted figure's region is top = max(0, c - 600), bottom = c.           *)
C4_FallbackWindow ==
    \A i \in Entries :
        LET e == crops[i]
            c == e.caption.y
        IN  (BottomsAbove(e) = {} /\ Emitted(i))
            => /\ e.cropTop = (IF c - 600 > 0 THEN c - 600 ELSE 0)
               /\ e.cropBottom = c
               /\ FigureOf(i).src.top = e.cropTop
               /\ FigureOf(i).src.height = c - e.cropTop

(* a caption at 700 with only a line above the page's top: figure from 100 *)
C4_Witness ==
    \E i \in Entries :
        /\ BottomsAbove(crops[i]) = {}
        /\ \E k \in DOMAIN lines : lines[k].bottom <= 0
        /\ crops[i].caption.y = 700
        /\ Emitted(i)
        /\ FigureOf(i).src.top = 100

(* no line's bottom lies strictly inside the region of entry e *)
NoLineBottomInside(e) ==
    \A k \in DOMAIN lines :
        ~(lines[k].bottom > e.cropTop /\ lines[k].bottom < e.cropBottom)

(* C5 as stated: every emitted figure with a line above its caption has    *)
(* its crop top at or below that line's bottom, no line bottom inside.     *)
C5_SkipsPrecedingText ==
    \A i \in Entries :
        (Emitted(i) /\ BottomsAbove(crops[i]) # {})
        => /\ crops[i].cropTop >= Greatest(BottomsAbove(crops[i]))
           /\ NoLineBottomInside(crops[i])

(* C5 amended: it holds of the figures whose window below the nearest line *)
(* is at least 100 high, so that the minimum-window correction leaves it.  *)
C5_SkipsPrecedingTextWhenRoomy ==
    \A i \in Entries :
        LET e == crops[i]
        IN  (/\ Emitted(i)
             /\ BottomsAbove(e) # {}
             /\ e.caption.y - (Greatest(BottomsAbove(e)) + 15) >= 100)
            => /\ e.cropTop >= Greatest(BottomsAbove(e))
               /\ NoLineBottomInside(e)

(* a figure under two lines above, the nearer one 185 above the caption *)
C5_Witness ==
    \E i \in Entries :
        /\ Emitted(i)
        /\ Cardinality(BottomsAbove(crops[i])) >= 2
        /\ crops[i].caption.y - (Greatest(BottomsAbove(crops[i])) + 15) >= 100
        /\ crops[i].cropTop > Greatest(BottomsAbove(crops[i]))

(* the letters of "Figure", in either case *)
FigureLetters == <<{"F","f"}, {"I","i"}, {"G","g"}, {"U","u"}, {"R","r"}, {"E","e"}>>

(* text is n letters of "Figure", k periods or white spaces, d digits, ... *)
CaptionShape(text, n, k, d) ==
    /\ n + k + d <= Len(text)
    /\ \A j \in 1..n : text[j] \in FigureLetters[j]
    /\ \A j \in (n + 1)..(n + k) : text[j] \in {".", " ", "\t", "\n", "\r", "\f"}
    /\ \A j \in (n + k + 1)..(n + k + d) :
         text[j] \in {"0","1","2","3","4","5","6","7","8","9"}

(* text starts with Figure or Fig, then periods or white space, then digits *)
IsCaptionText(text) ==
    \E n \in {6, 3} : \E k, d \in 1..Len(text) : CaptionShape(text, n, k, d)

(* all the digits of that place: the longest d *)
CaptionNumber(text) ==
    LET nkd == CHOOSE t \in {6, 3} \X (1..Len(text)) \X (1..Len(text)) :
                   /\ CaptionShape(text, t[1], t[2], t[3])
                   /\ ~CaptionShape(text, t[1], t[2], t[3] + 1)
    IN  SubSeq(text, nkd[1] + nkd[2] + 1, nkd[1] + nkd[2] + nkd[3])

FigureSpace == <<"F","i","g","u","r","e"," ">>

(* C6: a line is a caption exactly when its text starts, in any case, with *)
(* Figure or Fig, then one or more periods or white spaces, then one or    *)
(* more digits; a figure's label is "Figure " and those digits, whatever   *)
(* the variant, and no label has another form.                             *)
C6_LabelNormalization ==
    /\ \A i \in DOMAIN lines :
         (\E j \in DOMAIN captionLines : captionLines[j] = lines[i])
             <=> IsCaptionText(lines[i].text)
    /\ \A i \in Entries :
         Emitted(i) => FigureOf(i).label = FigureSpace \o CaptionNumber(crops[i].caption.text)
    /\ \A i \in Entries :
         (/\ Emitted(i)
          /\ crops[i].caption.text \in
               { <<"F","i","g","u","r","e"," ","1">>, <<"F","i","g","."," ","1">>,
                 <<"f","i","g"," ","1">>, <<"F","I","G","U","R","E",".","1">> })
         => FigureOf(i).label = <<"F","i","g","u","r","e"," ","1">>
    /\ \A k \in DOMAIN extractedFigures :
         LET label == extractedFigures[k].label
         IN  /\ Len(label) > 7
             /\ SubSeq(label, 1, 7) = FigureSpace
             /\ \A j \in 8..Len(label) :
                  label[j] \in {"0","1","2","3","4","5","6","7","8","9"}

(* the line FIGURE.1 has given a figure labelled Figure 1 *)
C6_Witness ==
    \E i \in Entries :
        /\ crops[i].caption.text = <<"F","I","G","U","R","E",".","1">>
        /\ Emitted(i)
        /\ FigureOf(i).label = <<"F","i","g","u","r","e"," ","1">>

(* the index of the line the run r of this page has gone to *)
LineOf(r) ==
    CHOOSE k \in DOMAIN lines :
        \E m \in DOMAIN lines[k].items : lines[k].items[m].idx = r.idx

Near(a, b) == a.bottom - b.bottom < 8 /\ b.bottom - a.bottom < 8

(* C7 as stated: two runs are in the same line when their baselines differ *)
(* by less than 8, in different lines when they differ by 8 or more.       *)
C7_GroupedByBaseline ==
    \A a, b \in Range(items) :
        /\ Near(a, b) => LineOf(a) = LineOf(b)
        /\ ~Near(a, b) => LineOf(a) # LineOf(b)

(* being less than 8 apart is transitive among the page's runs *)
NearIsTransitive ==
    \A a, b, c \in Range(items) : (Near(a, b) /\ Near(b, c)) => Near(a, c)

(* C7 amended: it holds of the pages on which being less than 8 apart is   *)
(* transitive among the runs, that is, whose baselines fall into clusters. *)
C7_GroupedByBaselineInClusters == NearIsTransitive => C7_GroupedByBaseline

(* clusters 7 and 8 apart: two runs in one line, a third in the next;     *)
C7_Witness ==
    /\ NearIsTransitive
    /\ Len(lines) = 2
    /\ \E a, b, c \in Range(items) :
         /\ b.bottom - a.bottom = 7
         /\ c.bottom - b.bottom = 8
         /\ LineOf(a) = LineOf(b)
         /\ LineOf(b) # LineOf(c)

(* C8: each line's baseline is not less than that of the line before it *)
C8_LinesTopToBottom ==
    \A k \in 1..(Len(lines) - 1) : lines[k].bottom <= lines[k + 1].bottom

(* the number of characters mergeLine writes before the k-th run of its *)
RECURSIVE Offset(_, _)
Offset(its, k) ==
    IF k = 1 THEN 0
    ELSE Offset(its, k - 1) + Len(its[k - 1].str)
             + (IF its[k].x - its[k - 1].right > 5 THEN 1 ELSE 0)

(* C9: a line's text is its runs' texts in increasing left-X order, with   *)
(* exactly one space between two adjacent runs whose gap exceeds 5 and     *)
(* nothing between the others; a line of one run has that run's text.      *)
C9_WordReconstruction ==
    \A i \in DOMAIN lines :
        LET its  == lines[i].items
            text == lines[i].text
            n    == Len(its)
        IN  /\ \A k \in 1..(n - 1) : its[k].x <= its[k + 1].x
            /\ Len(text) = Offset(its, n) + Len(its[n].str)
            /\ \A k \in 1..n :
                 SubSeq(text, Offset(its, k) + 1, Offset(its, k) + Len(its[k].str))
                     = its[k].str
            /\ \A k \in 2..n :
                 its[k].x - its[k - 1].right > 5 => text[Offset(its, k)] = " "
            /\ n = 1 => text = its[1].str

(* a line of three runs: gap 5 closed up, gap 6 spaced, "Fig" "1" " " "2" *)
C9_Witness ==
    \E i \in DOMAIN lines :
        /\ Len(lines[i].items) = 3
        /\ lines[i].items[2].x - lines[i].items[1].right = 5
        /\ lines[i].items[3].x - lines[i].items[2].right > 5
        /\ lines[i].text = <<"F","i","g","1"," ","2">>

(* a step that cuts the iteration of page pageNum short *)
PageFails == failed' # failed

(* C10: when page k fails, the figures pushed so far stay as they are, the *)
(* loop goes on to page k + 1 if there is one and the call ends resolved   *)
(* if not; the call never rejects once the loop is entered, and it ends    *)
(* with every page attempted.                                              *)
C10_PageFailureIsolated ==
    /\ [][PageFails =>
            /\ extractedFigures' = extractedFigures
            /\ pageNum' = pageNum + 1
            /\ pc' = (IF pageNum < Len(doc) THEN "getPage" ELSE "done")]_vars
    /\ [](pc = "rejected" => attempted = <<>> /\ extractedFigures = <<>>)
    /\ [](pc = "done" => attempted = [p \in 1..Len(doc) |-> p])

(* page 1 failed after its first figure, page 2 gave its figures *)
C10_Witness ==
    /\ pc = "done"
    /\ failed = {1}
    /\ Len(doc) = 2
    /\ PageFigures(1) # <<>>
    /\ PageFigures(2) # <<>>

(* C11: pages are entered in the order 1, 2, ..., each once, and every one  *)
(* of them by the end; a step changes the result only by appending one     *)
(* figure, and that figure is of the page the loop is at, the last one     *)
(* entered; the pages of the result's figures never decrease.              *)
C11_SequentialAppendOnly ==
    /\ [](attempted = [p \in 1..Len(attempted) |-> p])
    /\ [](pc = "done" => Len(attempted) = Len(doc))
    /\ [][attempted' # attempted =>
            /\ attempted' = Append(attempted, pageNum)
            /\ pc = "getPage"]_vars
    /\ [][pageNum' = pageNum \/ pageNum' = pageNum + 1]_vars
    /\ [][extractedFigures' # extractedFigures =>
            /\ Len(extractedFigures') = Len(extractedFigures) + 1
            /\ SubSeq(extractedFigures', 1, Len(extractedFigures)) = extractedFigures
            /\ extractedFigures'[Len(extractedFigures')].page = pageNum
            /\ pageNum = attempted[Len(attempted)]]_vars
    /\ [](\A j, k \in DOMAIN extractedFigures :
            j < k => extractedFigures[j].page <= extractedFigures[k].page)

(* both pages of a document entered, each has given figures, none failed *)
C11_Witness ==
    /\ pc = "done"
    /\ attempted = <<1, 2>>
    /\ failed = {}
    /\ PageFigures(1) # <<>>
    /\ PageFigures(2) # <<>>

(* no run of the document starts with an F: no line of it can be a caption *)
DocWithoutCaptions ==
    \A p \in DOMAIN doc : \A i \in DOMAIN doc[p] :
        doc[p][i].str = <<>> \/ doc[p][i].str[1] \notin {"F", "f"}

(* C12: a page whose text has no caption line pushes nothing and the loop  *)
(* goes on to the next page; figures are only pushed for caption lines; a  *)
(* document without captions resolves with the empty sequence; when the    *)
(* call resolves, with figures or with none, or rejects, handleProcess     *)
(* stays READING and goes on to read the file, the empty result by way of  *)
(* the text-only message, and GENERATING follows when the file is read;    *)
(* ERROR is only entered by the file read or the generation failing.       *)
C12_NoCaptionsIsNotAnError ==
    /\ [][(pc = "getTextContent" /\ failed' = failed) =>
            IF captionLines' = <<>>
            THEN /\ extractedFigures' = extractedFigures
                 /\ pageNum' = pageNum + 1
                 /\ pc' = (IF pageNum < Len(doc) THEN "getPage" ELSE "done")
            ELSE pc' = "render"]_vars
    /\ [][extractedFigures' # extractedFigures => (pc = "crop" /\ captionLines # <<>>)]_vars
    /\ []((pc = "done" /\ DocWithoutCaptions) => extractedFigures = <<>>)
    /\ [][(runs # <<>> /\ runs[1].at = "extract" /\ runs'[1].at # "extract") =>
            /\ status' = "READING"
            /\ runs'[1].at = (IF pc = "done" /\ extractedFigures = <<>>
                              THEN "delay" ELSE "toBase64")
            /\ pc = "done" => extractedImages'.figures = extractedFigures]_vars
    /\ [][(runs # <<>> /\ runs[1].at = "delay" /\ runs'[1].at # "delay") =>
            (status' = "READING" /\ runs'[1].at = "toBase64")]_vars
    /\ [][(runs # <<>> /\ runs[1].at = "toBase64" /\ status' # "ERROR") =>
            status' = "GENERATING"]_vars
    /\ [][(status' = "ERROR" /\ status # "ERROR") =>
            runs[1].at \in {"toBase64", "generate", "noClient"}]_vars

(* two pages without captions: the empty result, then GENERATING *)
C12_Witness ==
    /\ pc = "returned"
    /\ Len(doc) = 2
    /\ DocWithoutCaptions
    /\ failed = {}
    /\ extractedImages.figures = <<>>
    /\ statusMessage = "Deep reading"
    /\ status = "GENERATING"

(* the region of entry e as its caption line and the page's lines give it: *)
(* the window under the nearest line, or the fallback, then the correction *)
RegionTopOf(e) ==
    IF e.caption.y - WindowTop(e) < 100
    THEN (IF e.caption.y - 450 > 0 THEN e.caption.y - 450 ELSE 0)
    ELSE WindowTop(e)

(* every caption's region is the one its line and the page's lines give,   *)
(* other captions counted among the lines, and its figure is drawn from it *)
RegionsIndependent ==
    \A i \in Entries :
        /\ crops[i].caption = captionLines[i]
        /\ crops[i].cropBottom = crops[i].caption.y
        /\ crops[i].cropTop = RegionTopOf(crops[i])
        /\ Emitted(i) =>
             /\ FigureOf(i).page = crops[i].page
             /\ FigureOf(i).src.top = RegionTopOf(crops[i])
             /\ FigureOf(i).src.height = crops[i].caption.y - RegionTopOf(crops[i])

C14_LineBoundingBox ==
    \A i \in DOMAIN lines :
        LET l  == lines[i]
            rs == Range(l.items)
        IN  /\ rs # {}
            /\ \E r \in rs : r.y = l.y
            /\ \A r \in rs : l.y <= r.y
            /\ \E r \in rs : r.bottom = l.bottom
            /\ \A r \in rs : r.bottom <= l.bottom
            /\ \E r \in rs : r.x = l.x
            /\ \A r \in rs : l.x <= r.x
            /\ l.x = l.items[1].x
            /\ l.height = l.bottom - l.y

(* a line of three runs, the leftmost neither the highest nor the lowest:  *)
(* tops and bottoms differ among the runs                                  *)
C14_Witness ==
    \E i \in DOMAIN lines :
        LET l == lines[i]
        IN  /\ Len(l.items) = 3
            /\ \E r \in Range(l.items) : r.y > l.y
            /\ \E r \in Range(l.items) : r.bottom < l.bottom
            /\ l.items[1].bottom < l.bottom
            /\ l.items[1].y > l.y
            /\ l.height > l.items[1].height

(* str has a character that is not white space *)
NonBlank(str) == \E i \in DOMAIN str : str[i] \notin {" ", "\t", "\n", "\r", "\f"}

(* the places of the non-blank runs in the text content of page p *)
NonBlankRuns(p) == {i \in DOMAIN doc[p] : NonBlank(doc[p][i].str)}

(* the lines that hold the run of place idx *)
LinesHolding(ls, idx) ==
    {k \in DOMAIN ls : \E m \in DOMAIN ls[k].items : ls[k].items[m].idx = idx}

(* C15: the runs that are grouped are exactly the page's non-blank runs,   *)
(* each in exactly one line; every line has at least one run, only         *)
(* non-blank runs, and a text that is not blank, and its box lies within   *)
(* its runs' boxes; a page without non-blank runs gives no line and no     *)
(* figure.                                                                 *)
C15_BlankRunsDiscarded ==
    /\ [](/\ \A r \in Range(items) : NonBlank(r.str)
          /\ \A k \in DOMAIN lines :
               /\ Len(lines[k].items) >= 1
               /\ \A m \in DOMAIN lines[k].items :
                    /\ NonBlank(lines[k].items[m].str)
                    /\ lines[k].items[m] \in Range(items)
               /\ NonBlank(lines[k].text)
               /\ \E m \in DOMAIN lines[k].items : lines[k].items[m].y = lines[k].y
               /\ \E m \in DOMAIN lines[k].items :
                    lines[k].items[m].bottom = lines[k].bottom)
    /\ [][(pc = "getTextContent" /\ failed' = failed) =>
            /\ {r.idx : r \in Range(items')} = NonBlankRuns(pageNum)
            /\ Len(items') = Cardinality(NonBlankRuns(pageNum))
            /\ \A r \in Range(items') :
                 /\ r.str = doc[pageNum][r.idx].str
                 /\ Cardinality(LinesHolding(lines', r.idx)) = 1
            /\ NonBlankRuns(pageNum) = {} =>
                 /\ lines' = <<>>
                 /\ pc' # "render"
                 /\ extractedFigures' = extractedFigures]_vars
    /\ [][extractedFigures' # extractedFigures => lines # <<>>]_vars

(* a caption with a tall blank run 200 above it: the run is in no line,    *)
(* and the figure is cut from the page's top as with no text above         *)
C15_Witness ==
    \E i \in Entries :
        /\ Emitted(i)
        /\ crops[i].caption.y = 500
        /\ \E k \in DOMAIN doc[crops[i].page] :
             /\ ~NonBlank(doc[crops[i].page][k].str)
             /\ doc[crops[i].page][k].vy = 300
        /\ Len(lines) = 1
        /\ FigureOf(i).src.top = 0

(* C16: the article and the extracted images the App holds are of the file *)
(* that is selected, and a COMPLETE status comes with such an article:     *)
(* nothing of a run started on a file selected before is ever stored.      *)
C16_NoStaleResults ==
    /\ article # 0 => article.file = file
    /\ extractedImages.figures # <<>> => extractedImages.file = file
    /\ status = "COMPLETE" => (article # 0 /\ article.file = file)

(* the runs between their start and their return *)
RunsInFlight == {r \in DOMAIN runs : InFlight(r)}

(* C17: at any time at most one run of handleProcess is between its start  *)
(* and its return.                                                         *)
C17_SingleRunInFlight == Cardinality(RunsInFlight) <= 1

(* C18: no two figures of the result have the same id *)
C18_UniqueIds ==
    \A j, k \in DOMAIN extractedFigures :
        j # k => extractedFigures[j].id # extractedFigures[k].id

(* the section asks for a figure by its label "Figure N" *)
AsksForFigureN ==
    /\ matchingFig.rendered
    /\ matchingFig.section.defined
    /\ Len(matchingFig.section.str) > 7
    /\ SubSeq(matchingFig.section.str, 1, 7) = FigureSpace
    /\ \A j \in 8..Len(matchingFig.section.str) :
         matchingFig.section.str[j] \in {"0","1","2","3","4","5","6","7","8","9"}

(* C19: a section that asks for 'Figure N' is given an image labelled      *)
(* 'Figure N' when the images hold one, and never an image of another      *)
(* label.                                                                  *)
C19_ExactFigureMatching ==
    AsksForFigureN =>
        /\ (\E k \in DOMAIN extractedImages.figures :
               extractedImages.figures[k].label = matchingFig.section.str)
             => (/\ matchingFig.fig.found = "image"
                 /\ matchingFig.fig.image[1].label = matchingFig.section.str)
        /\ matchingFig.fig.found = "image"
             => matchingFig.fig.image[1].label = matchingFig.section.str

C21_CropRegionBounds ==
    \A i \in Entries :
        Emitted(i) =>
            LET e == crops[i]
                h == e.cropBottom - e.cropTop
            IN  /\ e.cropTop >= 0
                /\ e.cropBottom = e.caption.y
                /\ h >= (IF e.cropBottom < 100 THEN e.cropBottom ELSE 100)
                /\ h < 100 => (e.cropBottom < 100 /\ e.cropTop = 0)
                /\ e.cropHeight = h
                /\ FigureOf(i).src.top = e.cropTop
                /\ FigureOf(i).src.height = h

(* a caption 50 under the page's top gives a figure 50 high from 0, and a  *)
(* caption of the same page lower down one of 100 or more                  *)
C21_Witness ==
    \E i, j \in Entries :
        /\ Emitted(i)
        /\ crops[i].caption.y = 50
        /\ crops[i].cropTop = 0
        /\ FigureOf(i).src.height = 50
        /\ Emitted(j)
        /\ crops[j].cropBottom - crops[j].cropTop >= 100
        /\ crops[j].cropTop > 0

=============================================================================
